---- MODULE Spec2Model ----
(***************************************************************************)
(* sl-viewer: a filter that reads lines from standard input, pretty-prints *)
(* the ones that are JSON values with colours, and passes the others       *)
(* through unchanged (src/src/main.rs).                                    *)
(*                                                                         *)
(* Text is a sequence of characters, each a one-character string.  A      *)
(* colour escape sequence of the terminal is one element of such a         *)
(* sequence (see EscapeCodes), so that it can be told apart from the text  *)
(* it wraps; so are the fixed text of the error message and a character    *)
(* outside the model's alphabet, which is written by its name.             *)
(***************************************************************************)
EXTENDS Integers, Sequences, FiniteSets, TLC

\* scheme      opt.color_scheme, the value of --color-scheme
\* stdin       the lines of standard input (each with its line terminator)
\* pos         how many lines of stdin have been consumed
\* pc          where main is: "start", "read", "format", "clear", "done"
\*             (main returned) or "exited" (process::exit was called)
\* colors      format_service.colors
\* buffer      the String the loop reads into
\* read_result what the last read_line returned: "Ok", "Err" or "none"
\* bytes_read  the count of the last Ok
\* output      the String format_input returned for the current line
\* stdout      the records written by println!, in order
\* exit_code   the exit status, -1 while the process runs
VARIABLES scheme, stdin, pos, pc, colors, buffer, read_result, bytes_read,
          output, stdout, exit_code

vars == <<scheme, stdin, pos, pc, colors, buffer, read_result, bytes_read,
          output, stdout, exit_code>>

(***************************************************************************)
(* Bounds of the model.                                                    *)
(***************************************************************************)
\* lines in one input stream of the loop specification
MaxLines == 2
\* elements in a generated array or object
MaxWidth == 2
\* nesting depth of the generated arrays and objects
MaxDepth == 2

(***************************************************************************)
(* Characters.                                                             *)
(***************************************************************************)
\* JSON whitespace, as the parser skips it
JsonWs == {" ", "\n", "\t", "\r"}

\* what str::trim removes (White_Space; the model's alphabet has these four)
RustWs == {" ", "\n", "\t", "\r"}

Digits == {"0", "1", "2", "3", "4", "5", "6", "7", "8", "9"}

HexDigits == Digits \cup {"a", "b", "c", "d", "e", "f", "A", "B", "C", "D", "E", "F"}

\* characters below U+0020 that the alphabet has: not allowed raw in a string
ControlChars == {"\n", "\t", "\r"}

DigitVal(c) ==
    CASE c = "0" -> 0 [] c = "1" -> 1 [] c = "2" -> 2 [] c = "3" -> 3
      [] c = "4" -> 4 [] c = "5" -> 5 [] c = "6" -> 6 [] c = "7" -> 7
      [] c = "8" -> 8 [] c = "9" -> 9

DigitChar(n) ==
    CASE n = 0 -> "0" [] n = 1 -> "1" [] n = 2 -> "2" [] n = 3 -> "3"
      [] n = 4 -> "4" [] n = 5 -> "5" [] n = 6 -> "6" [] n = 7 -> "7"
      [] n = 8 -> "8" [] n = 9 -> "9"

RECURSIVE DigitsToNat(_)
DigitsToNat(ds) ==
    IF ds = <<>> THEN 0
    ELSE 10 * DigitsToNat(SubSeq(ds, 1, Len(ds) - 1)) + DigitVal(ds[Len(ds)])

RECURSIVE NatToDigits(_)
NatToDigits(n) ==
    IF n < 10 THEN <<DigitChar(n)>>
    ELSE Append(NatToDigits(n \div 10), DigitChar(n % 10))

Repeat(c, n) == [i \in 1..n |-> c]

\* [String]::join
RECURSIVE Join(_, _)
Join(ss, sep) ==
    IF ss = <<>> THEN <<>>
    ELSE IF Len(ss) = 1 THEN ss[1]
    ELSE ss[1] \o sep \o Join(Tail(ss), sep)

(***************************************************************************)
(* serde_json::Value.  Every value is a record of the same shape:          *)
(*   t  the variant                                                        *)
(*   s  the text of a scalar: the canonical text of a number, the decoded  *)
(*      content of a string, "true"/"false" of a boolean                   *)
(*   k  the keys of an object, in the order the map iterates them          *)
(*   e  the elements of an array, or the values of an object (e[i] is the  *)
(*      value of key k[i])                                                 *)
(***************************************************************************)
VNull == [t |-> "null", s |-> <<>>, k |-> <<>>, e |-> <<>>]
VBool(b) == [t |-> "bool", s |-> IF b THEN <<"t", "r", "u", "e">>
                                      ELSE <<"f", "a", "l", "s", "e">>,
             k |-> <<>>, e |-> <<>>]
VNumber(text) == [t |-> "number", s |-> text, k |-> <<>>, e |-> <<>>]
VString(content) == [t |-> "string", s |-> content, k |-> <<>>, e |-> <<>>]
VArray(elems) == [t |-> "array", s |-> <<>>, k |-> <<>>, e |-> elems]
VObject(keys, vals) == [t |-> "object", s |-> <<>>, k |-> keys, e |-> vals]

(***************************************************************************)
(* serde_json::from_str: a recursive-descent parser of one JSON text.      *)
(* A result is [ok, v, i]: whether a value was read, the value, and the    *)
(* position after it.                                                      *)
(***************************************************************************)
Fail == [ok |-> FALSE, v |-> VNull, i |-> 0]
Ok(v, i) == [ok |-> TRUE, v |-> v, i |-> i]

RECURSIVE SkipWs(_, _)
SkipWs(s, i) ==
    IF i <= Len(s) /\ s[i] \in JsonWs THEN SkipWs(s, i + 1) ELSE i

\* the literal `lit` at position i
ParseIdent(s, i, lit, v) ==
    IF i + Len(lit) - 1 <= Len(s) /\ SubSeq(s, i, i + Len(lit) - 1) = lit
    THEN Ok(v, i + Len(lit))
    ELSE Fail

\* the end of the run of digits that starts at i
RECURSIVE DigitRun(_, _)
DigitRun(s, i) ==
    IF i <= Len(s) /\ s[i] \in Digits THEN DigitRun(s, i + 1) ELSE i

RECURSIVE StripLeadingZeros(_)
StripLeadingZeros(ds) ==
    IF ds # <<>> /\ Head(ds) = "0" THEN StripLeadingZeros(Tail(ds)) ELSE ds

RECURSIVE StripTrailingZeros(_)
StripTrailingZeros(ds) ==
    IF ds # <<>> /\ ds[Len(ds)] = "0"
    THEN StripTrailingZeros(SubSeq(ds, 1, Len(ds) - 1))
    ELSE ds

\* Display of an f64 (ryu): the shortest digits `ds` of the value
\* 0.ds * 10^point, as a decimal when the exponent is small and in
\* scientific notation otherwise.
FloatText(neg, ds, point) ==
    LET sign == IF neg THEN <<"-">> ELSE <<>>
        n == Len(ds)
    IN  IF ds = <<>> THEN sign \o <<"0", ".", "0">>
        ELSE IF point >= n /\ point <= 16 THEN
            sign \o ds \o Repeat("0", point - n) \o <<".", "0">>
        ELSE IF point > 0 /\ point <= 16 THEN
            sign \o SubSeq(ds, 1, point) \o <<".">> \o SubSeq(ds, point + 1, n)
        ELSE IF point > -5 /\ point <= 0 THEN
            sign \o <<"0", ".">> \o Repeat("0", 0 - point) \o ds
        ELSE
            sign \o <<ds[1]>>
                 \o (IF n > 1 THEN <<".">> \o SubSeq(ds, 2, n) ELSE <<>>)
                 \o <<"e">>
                 \o (IF point - 1 < 0 THEN <<"-">> \o NatToDigits(1 - point)
                                      ELSE NatToDigits(point - 1))

\* A number whose first character (a digit or the minus sign) is at i.
\* An integer keeps its digits; a number with a fraction or an exponent
\* is an f64 and is written back in the canonical form of FloatText.
ParseNumber(s, i) ==
    LET neg == s[i] = "-"
        i1 == IF neg THEN i + 1 ELSE i
        i2 == DigitRun(s, i1)
        int == SubSeq(s, i1, i2 - 1)
        hasFrac == i2 <= Len(s) /\ s[i2] = "."
        f1 == IF hasFrac THEN i2 + 1 ELSE i2
        f2 == IF hasFrac THEN DigitRun(s, f1) ELSE i2
        frac == SubSeq(s, f1, f2 - 1)
        hasExp == f2 <= Len(s) /\ s[f2] \in {"e", "E"}
        hasSign == hasExp /\ f2 + 1 <= Len(s) /\ s[f2 + 1] \in {"+", "-"}
        expNeg == hasSign /\ s[f2 + 1] = "-"
        e1 == IF hasExp THEN (IF hasSign THEN f2 + 2 ELSE f2 + 1) ELSE f2
        e2 == IF hasExp THEN DigitRun(s, e1) ELSE f2
        exp == DigitsToNat(SubSeq(s, e1, e2 - 1))
        all == StripLeadingZeros(int \o frac)
        lead == Len(int \o frac) - Len(all)
        ds == StripTrailingZeros(all)
        point == Len(int) - lead + (IF expNeg THEN 0 - exp ELSE exp)
    IN  IF int = <<>> THEN Fail
        ELSE IF Len(int) > 1 /\ int[1] = "0" THEN Fail
        ELSE IF hasFrac /\ frac = <<>> THEN Fail
        ELSE IF hasExp /\ e2 = e1 THEN Fail
        ELSE IF hasFrac \/ hasExp THEN Ok(VNumber(FloatText(neg, ds, point)), e2)
        ELSE IF neg /\ int = <<"0">> THEN Ok(VNumber(FloatText(TRUE, <<>>, 0)), i2)
        ELSE Ok(VNumber((IF neg THEN <<"-">> ELSE <<>>) \o int), i2)

\* the character a simple escape stands for (backspace and form feed by
\* their names)
Unescape(c) ==
    CASE c = "\"" -> "\""
      [] c = "\\" -> "\\"
      [] c = "/" -> "/"
      [] c = "n" -> "\n"
      [] c = "t" -> "\t"
      [] c = "r" -> "\r"
      [] c = "b" -> "\\b"
      [] c = "f" -> "\\f"

\* the character of \uXXXX: the characters of the model's alphabet by
\* themselves, any other by a name
UnicodeChar(h) ==
    CASE h = <<"0", "0", "2", "0">> -> " "
      [] h = <<"0", "0", "2", "2">> -> "\""
      [] h = <<"0", "0", "6", "1">> -> "a"
      [] h = <<"0", "0", "6", "2">> -> "b"
      [] OTHER -> "U+" \o h[1] \o h[2] \o h[3] \o h[4]

\* the content of a string whose opening quote is before position i
RECURSIVE ParseStr(_, _, _)
ParseStr(s, i, acc) ==
    IF i > Len(s) THEN Fail
    ELSE IF s[i] = "\"" THEN Ok(VString(acc), i + 1)
    ELSE IF s[i] \in ControlChars THEN Fail
    ELSE IF s[i] = "\\" THEN
        IF i + 1 > Len(s) THEN Fail
        ELSE IF s[i + 1] \in {"\"", "\\", "/", "n", "t", "r", "b", "f"}
            THEN ParseStr(s, i + 2, Append(acc, Unescape(s[i + 1])))
        ELSE IF s[i + 1] = "u" /\ i + 5 <= Len(s)
                /\ \A j \in (i + 2)..(i + 5) : s[j] \in HexDigits
            THEN ParseStr(s, i + 6, Append(acc, UnicodeChar(SubSeq(s, i + 2, i + 5))))
        ELSE Fail
    ELSE ParseStr(s, i + 1, Append(acc, s[i]))

\* Map::insert of the order-preserving map: a new key goes last, a key
\* already present keeps its place and takes the new value
MapInsert(m, key, val) ==
    IF \E j \in 1..Len(m.k) : m.k[j] = key
    THEN LET j == CHOOSE j \in 1..Len(m.k) : m.k[j] = key
         IN  VObject(m.k, [m.e EXCEPT ![j] = val])
    ELSE VObject(Append(m.k, key), Append(m.e, val))

RECURSIVE ParseValue(_, _)
RECURSIVE ParseSeq(_, _, _)
RECURSIVE ParseMap(_, _, _)

\* the elements of an array, the first of them expected at i
ParseSeq(s, i, acc) ==
    LET r == ParseValue(s, i)
        j == SkipWs(s, r.i)
    IN  IF ~r.ok \/ j > Len(s) THEN Fail
        ELSE IF s[j] = "," THEN ParseSeq(s, j + 1, Append(acc, r.v))
        ELSE IF s[j] = "]" THEN Ok(VArray(Append(acc, r.v)), j + 1)
        ELSE Fail

\* the entries of an object, the first key expected at i
ParseMap(s, i, m) ==
    LET i1 == SkipWs(s, i)
        key == IF i1 <= Len(s) /\ s[i1] = "\"" THEN ParseStr(s, i1 + 1, <<>>) ELSE Fail
        i2 == SkipWs(s, key.i)
        r == IF key.ok /\ i2 <= Len(s) /\ s[i2] = ":" THEN ParseValue(s, i2 + 1) ELSE Fail
        j == SkipWs(s, r.i)
    IN  IF ~r.ok \/ j > Len(s) THEN Fail
        ELSE IF s[j] = "," THEN ParseMap(s, j + 1, MapInsert(m, key.v.s, r.v))
        ELSE IF s[j] = "}" THEN Ok(MapInsert(m, key.v.s, r.v), j + 1)
        ELSE Fail

ParseValue(s, i0) ==
    LET i == SkipWs(s, i0)
    IN  IF i > Len(s) THEN Fail
        ELSE IF s[i] = "n" THEN ParseIdent(s, i, <<"n", "u", "l", "l">>, VNull)
        ELSE IF s[i] = "t" THEN ParseIdent(s, i, <<"t", "r", "u", "e">>, VBool(TRUE))
        ELSE IF s[i] = "f" THEN ParseIdent(s, i, <<"f", "a", "l", "s", "e">>, VBool(FALSE))
        ELSE IF s[i] = "-" \/ s[i] \in Digits THEN ParseNumber(s, i)
        ELSE IF s[i] = "\"" THEN ParseStr(s, i + 1, <<>>)
        ELSE IF s[i] = "[" THEN
            LET j == SkipWs(s, i + 1)
            IN  IF j <= Len(s) /\ s[j] = "]" THEN Ok(VArray(<<>>), j + 1)
                ELSE ParseSeq(s, i + 1, <<>>)
        ELSE IF s[i] = "{" THEN
            LET j == SkipWs(s, i + 1)
            IN  IF j <= Len(s) /\ s[j] = "}" THEN Ok(VObject(<<>>, <<>>), j + 1)
                ELSE ParseMap(s, i + 1, VObject(<<>>, <<>>))
        ELSE Fail

\* serde_json::from_str(line): one value, then nothing but whitespace
from_str_json(line) ==
    LET r == ParseValue(line, 1)
    IN  IF r.ok /\ SkipWs(line, r.i) > Len(line) THEN r ELSE Fail

(***************************************************************************)
(* Colours (the colored crate).                                            *)
(***************************************************************************)
\* Color::TrueColor {r, g, b}
TrueColor(r, g, b) == <<r, g, b>>

\* the escape sequence that sets a truecolor foreground
Fg(c) == "ESC[38;2;" \o ToString(c[1]) \o ";" \o ToString(c[2]) \o ";"
                     \o ToString(c[3]) \o "m"

\* the escape sequence of Color::Red
FgRed == "ESC[31m"

\* the escape sequence that ends a coloured text
Reset == "ESC[0m"

\* text.color(c).to_string()
Colorize(text, c) == <<Fg(c)>> \o text \o <<Reset>>

chalk ==
    [null |-> TrueColor(221, 178, 111), bool |-> TrueColor(225, 163, 238),
     number |-> TrueColor(111, 194, 239), string |-> TrueColor(18, 207, 192),
     object_key |-> TrueColor(251, 159, 177)]

ocean ==
    [null |-> TrueColor(191, 97, 106), bool |-> TrueColor(235, 236, 139),
     number |-> TrueColor(163, 190, 140), string |-> TrueColor(143, 161, 179),
     object_key |-> TrueColor(180, 142, 173)]

greyscale ==
    [null |-> TrueColor(185, 185, 185), bool |-> TrueColor(247, 247, 247),
     number |-> TrueColor(134, 134, 134), string |-> TrueColor(160, 160, 160),
     object_key |-> TrueColor(104, 104, 104)]

solarized ==
    [null |-> TrueColor(220, 50, 47), bool |-> TrueColor(181, 137, 0),
     number |-> TrueColor(108, 113, 196), string |-> TrueColor(38, 139, 210),
     object_key |-> TrueColor(42, 161, 152)]

\* Option<ColorPalette>
None == [some |-> FALSE, palette |-> chalk]
Some(p) == [some |-> TRUE, palette |-> p]

\* from_str matching the name without regard to case
from_str_any_case(palette) ==
    CASE palette \in {"ocean", "Ocean"} -> Some(ocean)
      [] palette \in {"chalk", "CHALK"} -> Some(chalk)
      [] palette = "greyscale" -> Some(greyscale)
      [] palette = "solarized" -> Some(solarized)
      [] OTHER -> None

\* ColorPalette::from_str
from_str(palette) ==
    CASE palette = "ocean" -> Some(ocean)
      [] palette = "chalk" -> Some(chalk)
      [] palette = "greyscale" -> Some(greyscale)
      [] palette = "solarized" -> Some(solarized)
      [] OTHER -> None

(***************************************************************************)
(* FormatService.                                                          *)
(***************************************************************************)
\* indent(depth): "  " joined depth times
indent(depth) == Join([i \in 1..depth |-> <<" ", " ">>], <<>>)

RECURSIVE format_json(_, _, _)
RECURSIVE format_array(_, _, _)
RECURSIVE format_object(_, _, _)

format_array(cs, values, depth) ==
    LET contents == [i \in 1..Len(values) |->
                        indent(depth) \o format_json(cs, values[i], depth)]
    IN  <<"[", "\n">> \o Join(contents, <<",", "\n">>) \o <<"\n">>
            \o indent(depth - 1) \o <<"]">>

\* the order of characters and of keys that a sorted map iterates in
CharRank(c) == CASE c = " " -> 0 [] c = "a" -> 1 [] c = "b" -> 2 [] OTHER -> 3

RECURSIVE KeyLess(_, _)
KeyLess(a, b) ==
    IF b = <<>> THEN FALSE
    ELSE IF a = <<>> THEN TRUE
    ELSE IF CharRank(Head(a)) # CharRank(Head(b)) THEN CharRank(Head(a)) < CharRank(Head(b))
    ELSE KeyLess(Tail(a), Tail(b))

\* format_object over a map that iterates its keys in sorted order
format_object_sorted(cs, map, depth) ==
    LET n == Len(map.k)
        order == CHOOSE f \in [1..n -> 1..n] :
                    /\ \A i, j \in 1..n : i # j => f[i] # f[j]
                    /\ \A i \in 1..(n - 1) : KeyLess(map.k[f[i]], map.k[f[i + 1]])
        contents == [i \in 1..n |->
                        indent(depth) \o Colorize(map.k[order[i]], cs.object_key)
                            \o <<":", " ">> \o format_json(cs, map.e[order[i]], depth)]
    IN  <<"{", "\n">> \o Join(contents, <<",", "\n">>) \o <<"\n">>
            \o indent(depth - 1) \o <<"}">>

format_object(cs, map, depth) ==
    LET contents == [i \in 1..Len(map.k) |->
                        indent(depth) \o Colorize(map.k[i], cs.object_key)
                            \o <<":", " ">> \o format_json(cs, map.e[i], depth)]
    IN  <<"{", "\n">> \o Join(contents, <<",", "\n">>) \o <<"\n">>
            \o indent(depth - 1) \o <<"}">>

\* format_json with the colours of booleans and numbers exchanged
format_json_swapped(cs, value, depth) ==
    CASE value.t = "null" -> Colorize(<<"n", "u", "l", "l">>, cs.null)
      [] value.t = "bool" -> Colorize(value.s, cs.number)
      [] value.t = "number" -> Colorize(value.s, cs.bool)
      [] value.t = "string" -> Colorize(<<"\"">> \o value.s \o <<"\"">>, cs.string)
      [] value.t = "array" -> format_array(cs, value.e, depth + 1)
      [] value.t = "object" -> format_object(cs, value, depth + 1)

\* format_json that does not count the level of a nested array
format_json_flat(cs, value, depth) ==
    CASE value.t = "null" -> Colorize(<<"n", "u", "l", "l">>, cs.null)
      [] value.t = "bool" -> Colorize(value.s, cs.bool)
      [] value.t = "number" -> Colorize(value.s, cs.number)
      [] value.t = "string" -> Colorize(<<"\"">> \o value.s \o <<"\"">>, cs.string)
      [] value.t = "array" -> format_array(cs, value.e, IF depth = 0 THEN 1 ELSE depth)
      [] value.t = "object" -> format_object(cs, value, depth + 1)

format_json(cs, value, depth) ==
    CASE value.t = "null" -> Colorize(<<"n", "u", "l", "l">>, cs.null)
      [] value.t = "bool" -> Colorize(value.s, cs.bool)
      [] value.t = "number" -> Colorize(value.s, cs.number)
      [] value.t = "string" -> Colorize(<<"\"">> \o value.s \o <<"\"">>, cs.string)
      [] value.t = "array" -> format_array(cs, value.e, depth + 1)
      [] value.t = "object" -> format_object(cs, value, depth + 1)

\* str::trim
RECURSIVE trim_start(_)
trim_start(s) == IF s # <<>> /\ Head(s) \in RustWs THEN trim_start(Tail(s)) ELSE s

RECURSIVE trim_end(_)
trim_end(s) ==
    IF s # <<>> /\ s[Len(s)] \in RustWs THEN trim_end(SubSeq(s, 1, Len(s) - 1)) ELSE s

trim(s) == trim_end(trim_start(s))

\* format_input that tidies the line it could not parse
format_input_trimmed(cs, line) ==
    LET parsed_json == from_str_json(line)
    IN  IF parsed_json.ok THEN format_json(cs, parsed_json.v, 0) ELSE trim(line)

format_input(cs, line) ==
    LET parsed_json == from_str_json(line)
    IN  IF parsed_json.ok THEN format_json(cs, parsed_json.v, 0) ELSE line

\* The depth arguments with which format_array and format_object are
\* called while format_json(value, depth) runs: each of them computes
\* depth - 1 in usize.
RECURSIVE container_depths(_, _)
container_depths(value, depth) ==
    IF value.t \in {"array", "object"}
    THEN {depth + 1} \cup UNION {container_depths(value.e[i], depth + 1) :
                                    i \in 1..Len(value.e)}
    ELSE {}

(***************************************************************************)
(* Inputs.                                                                 *)
(***************************************************************************)
\* the text of a JSON string
RECURSIVE Quoted(_)
Quoted(cs) ==
    IF cs = <<>> THEN <<>>
    ELSE (IF Head(cs) \in {"\"", "\\"} THEN <<"\\", Head(cs)>> ELSE <<Head(cs)>>)
            \o Quoted(Tail(cs))

\* the compact JSON text of a value
RECURSIVE JsonText(_)
JsonText(v) ==
    CASE v.t = "null" -> <<"n", "u", "l", "l">>
      [] v.t \in {"bool", "number"} -> v.s
      [] v.t = "string" -> <<"\"">> \o Quoted(v.s) \o <<"\"">>
      [] v.t = "array" ->
            <<"[">> \o Join([i \in 1..Len(v.e) |-> JsonText(v.e[i])], <<",">>) \o <<"]">>
      [] v.t = "object" ->
            <<"{">> \o Join([i \in 1..Len(v.k) |->
                                <<"\"">> \o Quoted(v.k[i]) \o <<"\"", ":">>
                                    \o JsonText(v.e[i])], <<",">>) \o <<"}">>

\* the values --color-scheme takes in the model
Schemes == {"chalk", "greyscale", "ocean", "solarized",
            "neon", "Ocean", "CHALK", "mocha", ""}

KnownSchemes == {"chalk", "greyscale", "ocean", "solarized"}

Scalars ==
    {VNull, VBool(TRUE), VBool(FALSE),
     VNumber(<<"0">>), VNumber(<<"4", "2">>), VNumber(<<"-", "1">>),
     VString(<<>>), VString(<<"a">>), VString(<<"a", " ", "b">>),
     VString(<<"a", "\"", "b">>), VString(<<"\\">>)}

\* the scalars that generated containers hold
Leaves == {VNull, VNumber(<<"1">>), VString(<<"a">>)}

Keys == {<<"a">>, <<"b">>}

SeqsUpTo(S, n) == UNION {[1..m -> S] : m \in 0..n}

\* sequences of distinct keys
KeySeqs(n) == {ks \in SeqsUpTo(Keys, n) : \A i, j \in 1..Len(ks) : i # j => ks[i] # ks[j]}

\* the arrays and objects of at most MaxWidth leaves
FlatContainers ==
    {VArray(es) : es \in SeqsUpTo(Leaves, MaxWidth)}
      \cup UNION {{VObject(ks, es) : es \in [1..Len(ks) -> Leaves]} : ks \in KeySeqs(MaxWidth)}

\* the containers that hold container c, alone or after a leaf
Wrap(c) ==
    {VArray(<<c>>), VObject(<<<<"a">>>>, <<c>>)}
      \cup (IF MaxWidth >= 2
            THEN {VArray(<<VNull, c>>),
                  VObject(<<<<"b">>, <<"a">>>>, <<VNumber(<<"1">>), c>>)}
            ELSE {})

\* the containers nested d deep
RECURSIVE Nested(_)
Nested(d) ==
    IF d <= 1 THEN FlatContainers
    ELSE UNION {Wrap(c) : c \in Nested(d - 1)}

Containers == UNION {Nested(d) : d \in 1..MaxDepth}

NL == <<"\n">>

\* the scenarios of the documentation
LineScenario1 ==
    <<"{", "\"", "a", "\"", ":", "1", ",", "\"", "b", "\"", ":",
      "[", "t", "r", "u", "e", ",", "n", "u", "l", "l", "]", "}">> \o NL
LineNotJson ==
    <<"n", "o", "t", " ", "j", "s", "o", "n", " ", "a", "t", " ", "a", "l", "l">> \o NL
Line42 == <<"4", "2">> \o NL
LineKeysBA == <<"{", "\"", "b", "\"", ":", "1", ",", "\"", "a", "\"", ":", "2", "}">> \o NL

\* JSON texts with whitespace, escapes, number forms, a repeated key
ValidLines ==
    {LineScenario1, Line42, LineKeysBA,
     <<" ", "[", " ", "1", " ", ",", "\t", "2", " ", "]", " ">> \o NL,
     <<"{", " ", "\"", "a", "\"", " ", ":", " ", "{", " ", "}", " ", "}">> \o NL,
     <<"{", "\"", "a", "\"", ":", "1", ",", "\"", "a", "\"", ":", "2", "}">> \o NL,
     <<"{", "\"", "b", "\"", ":", "1", ",", "\"", "a", "\"", ":", "2", ",",
       "\"", "b", "\"", ":", "3", "}">> \o NL,
     <<"{", "\"", "a", " ", "b", "\"", ":", "\"", "\"", "}">> \o NL,
     <<"[", "\"", "a", " ", "b", "\"", "]">> \o NL,
     <<"[", "\"", "\\", "\"", "\"", "]">> \o NL,
     <<"\"", "\\", "n", "\"">> \o NL,
     <<"\"", "\\", "u", "0", "0", "6", "1", "\"">> \o NL,
     <<"1", "e", "2">> \o NL,
     <<"1", ".", "5", "0">> \o NL,
     <<"[", "[", "[", "]", "]", ",", "{", "}", "]">> \o NL,
     <<"n", "u", "l", "l">>,
     <<"[", "1", "]">>,
     <<" ", "t", "r", "u", "e", "\r">> \o NL}

\* lines that are no JSON text
MalformedLines ==
    {LineNotJson, NL, <<" ", " ">> \o NL, <<"\r">> \o NL, <<" ">>,
     <<" ", "x", " ">> \o NL,
     <<"n", "u", "l">> \o NL, <<"n", "u", "l", "l", "s">> \o NL,
     <<"T", "r", "u", "e">> \o NL,
     <<"0", "1">> \o NL, <<"1", ".">> \o NL, <<"1", "e">> \o NL, <<"-">> \o NL,
     <<"1", " ", "2">> \o NL,
     <<"\"", "a">> \o NL, <<"\"", "\\", "x", "\"">> \o NL,
     <<"\"", "a", "\t", "b", "\"">> \o NL,
     <<"'", "a", "'">> \o NL,
     <<"[", "1", ",", "]">> \o NL, <<"[", "1", " ", "2", "]">> \o NL,
     <<"[", "]", "]">> \o NL, <<"]">> \o NL,
     <<"{", "a", ":", "1", "}">> \o NL, <<"{", "\"", "a", "\"", "}">> \o NL,
     <<"{", "\"", "a", "\"", ":", "}">> \o NL,
     <<"{", "\"", "a", "\"", ":", "1", ",", "}">> \o NL,
     <<"{", "1", ":", "1", "}">> \o NL,
     <<"{", "\"", "a", "\"", ":", "1", "}", "}">> \o NL,
     <<"{", "\"", "a", "\"", ":", "1", "}", " ", "x">>}

\* a container's text cut short: the output of a writer that was interrupted
Truncated ==
    UNION {{SubSeq(JsonText(c), 1, n) \o NL : n \in 1..(Len(JsonText(c)) - 1)} :
              c \in FlatContainers}

\* the lines of the formatting specification
FmtLines ==
    {JsonText(v) \o NL : v \in Scalars \cup Containers}
      \cup ValidLines \cup MalformedLines \cup Truncated

\* the lines of the loop specification
LoopLines ==
    {LineScenario1, Line42, LineNotJson, NL, <<" ", " ">> \o NL,
     <<"[", "]">> \o NL, <<"{", "\"", "b", "\"", ":", "1">> \o NL,
     <<"\"", "a", " ", "b", "\"">> \o NL, <<"n", "u", "l", "l">>, <<" ", "x">>}

\* only the last line of a stream can lack its terminator
IsStream(ls) == \A i \in 1..(Len(ls) - 1) : ls[i][Len(ls[i])] = "\n"

Streams == {ls \in SeqsUpTo(LoopLines, MaxLines) : IsStream(ls)}

(***************************************************************************)
(* main.                                                                   *)
(***************************************************************************)
\* println!("{}", text): one record of standard output
println(text) == text

TypeOK ==
    /\ scheme \in Schemes
    /\ pos \in 0..Len(stdin)
    /\ pc \in {"start", "read", "format", "clear", "done", "exited"}
    /\ read_result \in {"none", "Ok", "Err"}
    /\ bytes_read \in Nat
    /\ exit_code \in {-1, 0, 1}

InitWith(inputs) ==
    /\ scheme \in Schemes
    /\ stdin \in inputs
    /\ pos = 0
    /\ pc = "start"
    /\ colors = None.palette
    /\ buffer = <<>>
    /\ read_result = "none"
    /\ bytes_read = 0
    /\ output = <<>>
    /\ stdout = <<>>
    /\ exit_code = -1

Init == InitWith(Streams)

InitFmt == InitWith({<<l>> : l \in FmtLines})

\* lines 17-22: the scheme is known; the service and the buffer are made
Start ==
    /\ pc = "start"
    /\ from_str(scheme).some
    /\ colors' = from_str(scheme).palette
    /\ buffer' = <<>>
    /\ pc' = "read"
    /\ UNCHANGED <<scheme, stdin, pos, read_result, bytes_read, output, stdout, exit_code>>

\* lines 33-36: the scheme is unknown
StartUnknown ==
    /\ pc = "start"
    /\ ~from_str(scheme).some
    /\ stdout' = Append(stdout,
                    println(<<FgRed, "Unknown color scheme: " \o scheme, Reset>>))
    /\ exit_code' = 1
    /\ pc' = "exited"
    /\ UNCHANGED <<scheme, stdin, pos, colors, buffer, read_result, bytes_read, output>>

\* line 24: read_line appends the next line to the buffer
ReadLine ==
    /\ pc = "read"
    /\ pos < Len(stdin)
    /\ buffer' = buffer \o stdin[pos + 1]
    /\ read_result' = "Ok"
    /\ bytes_read' = Len(stdin[pos + 1])
    /\ pos' = pos + 1
    /\ pc' = "format"
    /\ UNCHANGED <<scheme, stdin, colors, output, stdout, exit_code>>

\* lines 24-27: read_line returns Ok(0) at the end of input; break
ReadEof ==
    /\ pc = "read"
    /\ pos = Len(stdin)
    /\ read_result' = "Ok"
    /\ bytes_read' = 0
    /\ pc' = "done"
    /\ exit_code' = 0
    /\ UNCHANGED <<scheme, stdin, pos, colors, buffer, output, stdout>>

\* line 24: read_line returns Err (an I/O error, bytes that are not
\* UTF-8); the `while let` ends and main returns
ReadErr ==
    /\ pc = "read"
    /\ read_result' = "Err"
    /\ pc' = "done"
    /\ exit_code' = 0
    /\ UNCHANGED <<scheme, stdin, pos, colors, buffer, bytes_read, output, stdout>>

\* the loop body unwrapping the parse result: a line that is no JSON panics
FormatPrintUnwrap ==
    /\ pc = "format"
    /\ output' = format_input(colors, buffer)
    /\ IF from_str_json(buffer).ok
       THEN /\ stdout' = Append(stdout, println(trim(output')))
            /\ pc' = "clear"
            /\ exit_code' = exit_code
       ELSE /\ stdout' = stdout
            /\ pc' = "exited"
            /\ exit_code' = 1
    /\ UNCHANGED <<scheme, stdin, pos, colors, buffer, read_result, bytes_read>>

\* the loop body printing nothing for a line whose output trims to nothing
FormatPrintSkipsBlank ==
    /\ pc = "format"
    /\ output' = format_input(colors, buffer)
    /\ stdout' = IF trim(output') = <<>> THEN stdout
                 ELSE Append(stdout, println(trim(output')))
    /\ pc' = "clear"
    /\ UNCHANGED <<scheme, stdin, pos, colors, buffer, read_result, bytes_read, exit_code>>

\* lines 29-30
FormatPrint ==
    /\ pc = "format"
    /\ output' = format_input(colors, buffer)
    /\ stdout' = Append(stdout, println(trim(output')))
    /\ pc' = "clear"
    /\ UNCHANGED <<scheme, stdin, pos, colors, buffer, read_result, bytes_read, exit_code>>

\* the loop body without buffer.clear()
ClearForgotten ==
    /\ pc = "clear"
    /\ pc' = "read"
    /\ UNCHANGED <<scheme, stdin, pos, colors, buffer, read_result, bytes_read, output,
                   stdout, exit_code>>

\* line 31
Clear ==
    /\ pc = "clear"
    /\ buffer' = <<>>
    /\ pc' = "read"
    /\ UNCHANGED <<scheme, stdin, pos, colors, read_result, bytes_read, output, stdout, exit_code>>

Next ==
    \/ Start
    \/ StartUnknown
    \/ ReadLine
    \/ ReadEof
    \/ ReadErr
    \/ FormatPrint
    \/ Clear

\* the loop over streams of lines
Spec == Init /\ [][Next]_vars

\* one line of the larger set of lines
SpecFmt == InitFmt /\ [][Next]_vars

(***************************************************************************)
(* What the properties read.                                               *)
(***************************************************************************)
Palettes == {chalk, ocean, greyscale, solarized}

EscapeCodes ==
    {Reset, FgRed}
      \cup {Fg(p.null) : p \in Palettes} \cup {Fg(p.bool) : p \in Palettes}
      \cup {Fg(p.number) : p \in Palettes} \cup {Fg(p.string) : p \in Palettes}
      \cup {Fg(p.object_key) : p \in Palettes}

IsText(c) == c \notin EscapeCodes
IsNotSpace(c) == c \notin RustWs

\* a text without its colour escape codes
StripColors(s) == SelectSeq(s, IsText)

\* a text without its whitespace
StripWhitespace(s) == SelectSeq(s, IsNotSpace)

\* n spaces
Spaces(n) == [i \in 1..n |-> " "]

\* the line the loop is working on, what it parses to, and the record
\* that was written for it
Line == stdin[pos]
Parsed == from_str_json(stdin[pos])
Record == stdout[Len(stdout)]
Palette == from_str(scheme).palette

\* the loop has formatted and printed the current line
Printed == pc = "clear"

IsScalar(v) == v.t \in {"null", "bool", "number", "string"}
IsContainer(v) == v.t \in {"array", "object"}

\* the text of a scalar: the content of a string between double quotes
ScalarText(v) ==
    CASE v.t = "null" -> <<"n", "u", "l", "l">>
      [] v.t = "string" -> <<"\"">> \o v.s \o <<"\"">>
      [] OTHER -> v.s

\* the palette slot of a scalar
Slot(p, v) ==
    CASE v.t = "null" -> p.null
      [] v.t = "bool" -> p.bool
      [] v.t = "number" -> p.number
      [] v.t = "string" -> p.string

Has(s, c) == \E i \in 1..Len(s) : s[i] = c

\* a scalar written without an escape, a fraction, an exponent or a sign
IsPlainLiteral(line) ==
    ~Has(line, "\\") /\ ~Has(line, ".") /\ ~Has(line, "-")
        /\ (Parsed.v.t = "number" => ~Has(line, "e") /\ ~Has(line, "E"))

(***************************************************************************)
(* C1.  Pass-through: for a line that does not parse as JSON (malformed,   *)
(* plain text, empty or only whitespace), format_input returns the line    *)
(* itself: nothing added, nothing removed, nothing coloured.               *)
(***************************************************************************)
C1_PassThrough ==
    (Printed /\ (~Parsed.ok \/ Line \in MalformedLines \cup Truncated))
        => /\ output = Line
           /\ \A i \in 1..Len(output) : output[i] \notin EscapeCodes

C1_Witness ==
    /\ Printed
    /\ Line = <<" ", " ", "\n">>
    /\ ~Parsed.ok
    /\ output = <<" ", " ", "\n">>

(***************************************************************************)
(* C2.  With a scheme name that is not exactly chalk, greyscale, ocean or  *)
(* solarized, the process prints the unknown-scheme message and exits with *)
(* status 1; it never reads a line and writes no formatted output.         *)
(***************************************************************************)
C2_UnknownScheme ==
    scheme \notin KnownSchemes
        => /\ pos = 0
           /\ read_result = "none"
           /\ buffer = <<>>
           /\ output = <<>>
           /\ pc \in {"start", "exited"}
           /\ pc = "start" => (stdout = <<>> /\ exit_code = -1)
           /\ pc = "exited" =>
                /\ exit_code = 1
                /\ stdout = <<println(<<FgRed, "Unknown color scheme: " \o scheme, Reset>>)>>

C2_Witness ==
    /\ scheme = "Ocean"
    /\ pc = "exited"
    /\ exit_code = 1
    /\ Len(stdin) > 0
    /\ pos = 0
    /\ Len(stdout) = 1

(***************************************************************************)
(* C3.  With a known scheme the loop writes one record for each line it    *)
(* has read, in the order of the input, none skipped and none twice; when  *)
(* a read returns zero bytes every line of the input has its record and    *)
(* the process ends with status 0.                                         *)
(***************************************************************************)
C3_OneRecordPerLine ==
    scheme \in KnownSchemes
        => /\ Len(stdout) = (IF pc = "format" THEN pos - 1 ELSE pos)
           /\ \A i \in 1..Len(stdout) :
                stdout[i] = trim(format_input(Palette, stdin[i]))
           /\ (pc = "done" /\ read_result = "Ok") =>
                /\ bytes_read = 0
                /\ pos = Len(stdin)
                /\ Len(stdout) = Len(stdin)
                /\ exit_code = 0
           /\ pc # "exited"

C3_Witness ==
    /\ scheme \in KnownSchemes
    /\ pc = "done"
    /\ read_result = "Ok"
    /\ bytes_read = 0
    /\ exit_code = 0
    /\ Len(stdin) >= 2
    /\ stdin[1] = NL
    /\ Len(stdout) = Len(stdin)

(***************************************************************************)
(* C4.  A line that is no JSON never ends the loop or the process: from    *)
(* the formatting of any line the loop goes on to the clearing of the      *)
(* buffer and to the next read, and main returns only from a read that     *)
(* gave zero bytes or an error.                                            *)
(***************************************************************************)
C4_MalformedNeverStops ==
    [][/\ pc = "format" => (pc' = "clear" /\ exit_code' = -1)
       /\ pc = "clear" => (pc' = "read" /\ exit_code' = -1)
       /\ (pc \in {"read", "format", "clear"} /\ pc' \in {"done", "exited"}) =>
            /\ pc = "read"
            /\ pc' = "done"
            /\ \/ (read_result' = "Ok" /\ bytes_read' = 0)
               \/ read_result' = "Err"]_vars

C4_Witness ==
    /\ pc = "format"
    /\ pos = 2
    /\ stdin[1] = LineNotJson
    /\ ~from_str_json(stdin[1]).ok
    /\ ~from_str_json(stdin[2]).ok
    /\ exit_code = -1

(***************************************************************************)
(* C5.  Structural round trip: for a line that is a JSON array or object,  *)
(* the output without its colour codes and its whitespace parses as JSON   *)
(* to a value equal to the one parsed from the line.                       *)
(***************************************************************************)
C5_RoundTrip ==
    (Printed /\ Parsed.ok /\ IsContainer(Parsed.v))
        => LET again == from_str_json(StripWhitespace(StripColors(Record)))
           IN  again.ok /\ again.v = Parsed.v

(***************************************************************************)
(* C6.  For a line that is a JSON scalar the record is the text of the     *)
(* value (null, true or false, the number, the string between double       *)
(* quotes) wrapped in the colour of its own palette slot, with no bracket  *)
(* and no indentation; a literal written plainly comes out as written.     *)
(***************************************************************************)
C6_ScalarText ==
    (Printed /\ Parsed.ok /\ IsScalar(Parsed.v))
        => /\ StripColors(Record) = ScalarText(Parsed.v)
           /\ Record = <<Fg(Slot(Palette, Parsed.v))>> \o ScalarText(Parsed.v) \o <<Reset>>
           /\ IsPlainLiteral(Line) => StripColors(Record) = trim(Line)

C6_Witness ==
    /\ Printed
    /\ scheme = "ocean"
    /\ Line = Line42
    /\ Record = <<Fg(ocean.number), "4", "2", Reset>>

(***************************************************************************)
(* C7.  For the line {"a":1,"b":[true,null]} the output without its colour *)
(* codes is the lines                                                      *)
(*     {                                                                   *)
(*       "a": 1,                                                           *)
(*       "b": [                                                            *)
(*         true,                                                           *)
(*         null                                                            *)
(*       ]                                                                 *)
(*     }                                                                   *)
(* each key in double quotes.                                              *)
(***************************************************************************)
Scenario1Text ==
    Join(<< <<"{">>,
            <<" ", " ", "\"", "a", "\"", ":", " ", "1", ",">>,
            <<" ", " ", "\"", "b", "\"", ":", " ", "[">>,
            <<" ", " ", " ", " ", "t", "r", "u", "e", ",">>,
            <<" ", " ", " ", " ", "n", "u", "l", "l">>,
            <<" ", " ", "]">>,
            <<"}">> >>, <<"\n">>)

C7_Scenario1 ==
    (Printed /\ Line = LineScenario1) => StripColors(Record) = Scenario1Text

(***************************************************************************)
(* C8.  The entries of a rendered object are in the order in which the     *)
(* keys come in the input, not sorted: with key b before key a in the      *)
(* line, b is rendered before a.                                           *)
(***************************************************************************)
\* the keys of a value, an object's before those of its entries' values
RECURSIVE KeysOf(_)
KeysOf(v) ==
    Join([i \in 1..Len(v.e) |->
            (IF v.t = "object" THEN <<v.k[i]>> ELSE <<>>) \o KeysOf(v.e[i])], <<>>)

\* the texts of a record that are in the colour of object keys
RECURSIVE KeysIn(_, _, _, _)
KeysIn(rec, i, p, cur) ==
    IF i > Len(rec) THEN <<>>
    ELSE IF cur.open THEN
        IF rec[i] = Reset THEN <<cur.text>> \o KeysIn(rec, i + 1, p, [open |-> FALSE, text |-> <<>>])
        ELSE KeysIn(rec, i + 1, p, [open |-> TRUE, text |-> Append(cur.text, rec[i])])
    ELSE IF rec[i] = Fg(p.object_key) THEN KeysIn(rec, i + 1, p, [open |-> TRUE, text |-> <<>>])
    ELSE KeysIn(rec, i + 1, p, cur)

RenderedKeys(rec, p) == KeysIn(rec, 1, p, [open |-> FALSE, text |-> <<>>])

\* the generated containers: the line of each and its keys as written
GeneratedKeys == {<<JsonText(c) \o NL, KeysOf(c)>> : c \in Containers}

RECURSIVE Layout(_, _)
Layout(v, d) ==
    IF IsScalar(v) THEN ScalarText(v)
    ELSE LET open == IF v.t = "array" THEN "[" ELSE "{"
             close == IF v.t = "array" THEN "]" ELSE "}"
             element(i) ==
                Spaces(2 * (d + 1))
                    \o (IF v.t = "object" THEN v.k[i] \o <<":", " ">> ELSE <<>>)
                    \o Layout(v.e[i], d + 1)
         IN  <<open, "\n">>
                \o Join([i \in 1..Len(v.e) |-> element(i)], <<",", "\n">>)
                \o <<"\n">> \o Spaces(2 * d) \o <<close>>

LineNestedEmpty == <<"[", "[", "[", "]", "]", ",", "{", "}", "]">> \o NL

C9_Layout ==
    (Printed /\ Parsed.ok /\ IsContainer(Parsed.v))
        => /\ StripColors(Record) = Layout(Parsed.v, 0)
           /\ \A d \in container_depths(Parsed.v, 0) : d - 1 >= 0
           /\ Parsed.v = VArray(<<>>) => StripColors(Record) = <<"[", "\n", "\n", "]">>

C9_Witness ==
    /\ Printed
    /\ Line = LineNestedEmpty
    /\ Record = Join(<< <<"[">>,
                        <<" ", " ", "[">>,
                        <<" ", " ", " ", " ", "[">>,
                        <<>>,
                        <<" ", " ", " ", " ", "]">>,
                        <<" ", " ", "]", ",">>,
                        <<" ", " ", "{">>,
                        <<>>,
                        <<" ", " ", "}">>,
                        <<"]">> >>, <<"\n">>)

(***************************************************************************)
(* C10.  Nothing carries over from one iteration to the next: the buffer   *)
(* is empty at every read and holds exactly the current line afterwards,   *)
(* so equal lines get equal records whatever came between them, and the    *)
(* palette is the one chosen at startup and never changes.                 *)
(***************************************************************************)
C10_NoCarryOver ==
    /\ [](pc = "read" => buffer = <<>>)
    /\ [](pc \in {"format", "clear"} => buffer = stdin[pos])
    /\ [](pc # "exited" =>
            \A i, j \in 1..Len(stdout) : stdin[i] = stdin[j] => stdout[i] = stdout[j])
    /\ [](pc \in {"read", "format", "clear", "done"} => colors = from_str(scheme).palette)
    /\ [][pc # "start" => colors' = colors]_vars

C10_Witness ==
    /\ pc = "read"
    /\ pos = 2
    /\ buffer = <<>>
    /\ stdin[1] = LineScenario1
    /\ stdin[2] = LineScenario1
    /\ stdout[1] = stdout[2]

====
